---- MODULE Spec2Model ----
(***************************************************************************)
(* Model of the bounded-concurrency scraper (learning/scraper.go) and of   *)
(* the deadline-bound single fetch (learning/context.go).                  *)
(*                                                                         *)
(* ConcurrentScraper.Scrape is modelled goroutine by goroutine: the caller *)
(* (mpc) and one worker goroutine per url (wpc[i]).  The semaphore and the *)
(* results channel are Go buffered channels, the WaitGroup is a counter.   *)
(* The executor (the Scraper interface) is an opaque collaborator: what it *)
(* returns, and whether it returns at all, is chosen nondeterministically. *)
(***************************************************************************)
EXTENDS Integers, Sequences, FiniteSets, TLC

\* ---------------------------------------------------------------- bounds
MaxKeys == 2
MaxWorkers == 2
MaxDelay == 6
MaxKeysEach == 1

\* context.go, in clock ticks of 50ms
Budget == 4
SleepTicks == 3
FetchedValue == 666

Keys == {"a", "b"}
\* the payload a successful executor call returns for a url
Body(url) == "body of " \o url

\* error values an executor call can return (nil = success)
Nil == "nil"
TransportError == "transport"
DeadlineExceeded == "deadline"

VARIABLES
    urls,          \* the urls argument of ConcurrentScraper.Scrape
    NumWorkers,    \* c.NumWorkers
    execReturns,   \* FALSE: the executor may ignore ctx and never return
    cancelled,     \* ctx.Done() is closed
    expiredFirst,  \* history: ctx fired before any executor call returned
    mpc,           \* position of the goroutine running Scrape
    next,          \* index of the range loop at line 85
    wg,            \* WaitGroup counter
    semaphore,     \* number of tokens buffered in the semaphore channel
    results,       \* buffer of the results channel
    closed,        \* results has been closed
    finalResults,  \* the slice Scrape returns
    wpc,           \* position of each worker goroutine
    ret,           \* (data, err) each worker got from the executor
    calls,         \* history: executor calls made by each worker
    sends,         \* history: Results sent by each worker
    \* ---- single fetch (context.go)
    now,           \* clock, in ticks of 50ms
    fpc,           \* position of the goroutine running fetchUserData
    gpc,           \* position of the background goroutine
    fetchDelay,    \* ticks the third-party fetch takes
    fetchVal,      \* (value, err) the third-party fetch returns
    deadline,      \* expiry of the ctx made at line 29
    respch,        \* value offered on the unbuffered respch, if any
    doneAt,        \* history: tick at which the third-party fetch returned
    fret,          \* what fetchUserData returned
    \* ---- two Scrape calls running at the same time
    inst           \* per call: the locals of that call of Scrape

batchVars == <<urls, NumWorkers, execReturns, cancelled, expiredFirst, mpc,
               next, wg, semaphore, results, closed, finalResults, wpc, ret,
               calls, sends>>
fetchVars == <<now, fpc, gpc, fetchDelay, fetchVal, deadline, respch, doneAt,
               fret>>
pairVars == <<inst>>
vars == <<batchVars, fetchVars, pairVars>>

Tasks == 1..Len(urls)

\* a results channel sized by the number of workers
ResultsCap_NumWorkers == NumWorkers

\* line 82: make(chan Result, len(urls))
ResultsCap == Len(urls)

\* a goroutine that reads the loop variable after the loop has moved on
WorkerURL_Captured(i) == urls[Len(urls)]

\* lines 87, 92: go func(url string) {...}(url): the url of the i-th goroutine
WorkerURL(i) == urls[i]
NoRet == [Data |-> "none", Err |-> "none"]

\* ------------------------------------------------------------ initial state
RECURSIVE SeqsUpTo(_, _)
SeqsUpTo(S, n) ==
    IF n = 0 THEN {<<>>}
    ELSE LET shorter == SeqsUpTo(S, n - 1)
         IN  shorter \cup {Append(s, x) : s \in shorter, x \in S}

BatchInit ==
    /\ urls \in SeqsUpTo(Keys, MaxKeys)
    /\ NumWorkers \in -1..MaxWorkers
    /\ execReturns \in BOOLEAN
    /\ cancelled = FALSE
    /\ expiredFirst = FALSE
    /\ mpc = "make"
    /\ next = 1
    /\ wg = 0
    /\ semaphore = 0
    /\ results = <<>>
    /\ closed = FALSE
    /\ finalResults = <<>>
    /\ wpc = [i \in Tasks |-> "idle"]
    /\ ret = [i \in Tasks |-> NoRet]
    /\ calls = [i \in Tasks |-> 0]
    /\ sends = [i \in Tasks |-> 0]

FetchIdle ==
    /\ now = 0
    /\ fpc = "off"
    /\ gpc = "off"
    /\ fetchDelay = 0
    /\ fetchVal = NoRet
    /\ deadline = 0
    /\ respch = NoRet
    /\ doneAt = -1
    /\ fret = NoRet

PairIdle == inst = <<>>

Init == BatchInit /\ FetchIdle /\ PairIdle

BatchIdle ==
    /\ urls = <<>>
    /\ NumWorkers = 0
    /\ execReturns = TRUE
    /\ cancelled = FALSE
    /\ expiredFirst = FALSE
    /\ mpc = "off"
    /\ next = 1
    /\ wg = 0
    /\ semaphore = 0
    /\ results = <<>>
    /\ closed = FALSE
    /\ finalResults = <<>>
    /\ wpc = <<>>
    /\ ret = <<>>
    /\ calls = <<>>
    /\ sends = <<>>

\* ------------------------------------------------- the caller of Scrape
\* lines 82-84: make(chan Result, len(urls)); make(chan struct{}, NumWorkers).
\* make panics with "makechan: size out of range" for a negative size.
MakeChans ==
    /\ mpc = "make"
    /\ mpc' = IF NumWorkers < 0 THEN "panic" ELSE "loop"
    /\ UNCHANGED fetchVars
    /\ UNCHANGED pairVars
    /\ UNCHANGED <<urls, NumWorkers, execReturns, cancelled, expiredFirst,
                   next, wg, semaphore, results, closed, finalResults, wpc,
                   ret, calls, sends>>

\* a loop that starts the goroutine without wg.Add(1)
Spawn_NoAdd ==
    /\ mpc = "loop"
    /\ next <= Len(urls)
    /\ wpc' = [wpc EXCEPT ![next] = "acquire"]
    /\ next' = next + 1
    /\ UNCHANGED fetchVars
    /\ UNCHANGED pairVars
    /\ UNCHANGED <<urls, NumWorkers, execReturns, cancelled, expiredFirst,
                   mpc, wg, semaphore, results, closed, finalResults, ret,
                   calls, sends>>

\* lines 85-93: one iteration of the range loop: wg.Add(1); go func(url)
Spawn ==
    /\ mpc = "loop"
    /\ next <= Len(urls)
    /\ wg' = wg + 1
    /\ wpc' = [wpc EXCEPT ![next] = "acquire"]
    /\ next' = next + 1
    /\ UNCHANGED fetchVars
    /\ UNCHANGED pairVars
    /\ UNCHANGED <<urls, NumWorkers, execReturns, cancelled, expiredFirst,
                   mpc, semaphore, results, closed, finalResults, ret, calls,
                   sends>>

\* line 85: the range is exhausted
LoopExit ==
    /\ mpc = "loop"
    /\ next > Len(urls)
    /\ mpc' = "wait"
    /\ UNCHANGED fetchVars
    /\ UNCHANGED pairVars
    /\ UNCHANGED <<urls, NumWorkers, execReturns, cancelled, expiredFirst,
                   next, wg, semaphore, results, closed, finalResults, wpc,
                   ret, calls, sends>>

\* a Wait that does not wait for the counter to reach zero
Wait_NoBlock ==
    /\ mpc = "wait"
    /\ mpc' = "close"
    /\ UNCHANGED fetchVars
    /\ UNCHANGED pairVars
    /\ UNCHANGED <<urls, NumWorkers, execReturns, cancelled, expiredFirst,
                   next, wg, semaphore, results, closed, finalResults, wpc,
                   ret, calls, sends>>

\* line 95: wg.Wait() returns when the counter is zero
Wait ==
    /\ mpc = "wait"
    /\ wg = 0
    /\ mpc' = "close"
    /\ UNCHANGED fetchVars
    /\ UNCHANGED pairVars
    /\ UNCHANGED <<urls, NumWorkers, execReturns, cancelled, expiredFirst,
                   next, wg, semaphore, results, closed, finalResults, wpc,
                   ret, calls, sends>>

\* line 96: close(results)
Close ==
    /\ mpc = "close"
    /\ closed' = TRUE
    /\ mpc' = "drain"
    /\ UNCHANGED fetchVars
    /\ UNCHANGED pairVars
    /\ UNCHANGED <<urls, NumWorkers, execReturns, cancelled, expiredFirst,
                   next, wg, semaphore, results, finalResults, wpc, ret,
                   calls, sends>>

\* a drain loop that keeps one Result per URL
Drain_Dedup ==
    /\ mpc = "drain"
    /\ results # <<>>
    /\ finalResults' =
           IF \E j \in DOMAIN finalResults :
                  finalResults[j].URL = Head(results).URL
           THEN finalResults
           ELSE Append(finalResults, Head(results))
    /\ results' = Tail(results)
    /\ UNCHANGED fetchVars
    /\ UNCHANGED pairVars
    /\ UNCHANGED <<urls, NumWorkers, execReturns, cancelled, expiredFirst,
                   mpc, next, wg, semaphore, closed, wpc, ret, calls, sends>>

\* lines 99-101: one iteration of "for result := range results"
Drain ==
    /\ mpc = "drain"
    /\ results # <<>>
    /\ finalResults' = Append(finalResults, Head(results))
    /\ results' = Tail(results)
    /\ UNCHANGED fetchVars
    /\ UNCHANGED pairVars
    /\ UNCHANGED <<urls, NumWorkers, execReturns, cancelled, expiredFirst,
                   mpc, next, wg, semaphore, closed, wpc, ret, calls, sends>>

\* lines 99-103: the channel is closed and empty: the range ends, Scrape
\* returns finalResults
Return ==
    /\ mpc = "drain"
    /\ results = <<>>
    /\ closed
    /\ mpc' = "done"
    /\ UNCHANGED fetchVars
    /\ UNCHANGED pairVars
    /\ UNCHANGED <<urls, NumWorkers, execReturns, cancelled, expiredFirst,
                   next, wg, semaphore, results, closed, finalResults, wpc,
                   ret, calls, sends>>

\* ------------------------------------------------- a worker goroutine
\* an admission that ignores the capacity of the semaphore
Acquire_NoGate(i) ==
    /\ wpc[i] = "acquire"
    /\ semaphore' = semaphore + 1
    /\ wpc' = [wpc EXCEPT ![i] = "call"]
    /\ UNCHANGED fetchVars
    /\ UNCHANGED pairVars
    /\ UNCHANGED <<urls, NumWorkers, execReturns, cancelled, expiredFirst,
                   mpc, next, wg, results, closed, finalResults, ret, calls,
                   sends>>

\* an admission gate that is a mutex: one worker at a time
Acquire_Serial(i) ==
    /\ wpc[i] = "acquire"
    /\ semaphore < NumWorkers
    /\ semaphore = 0
    /\ semaphore' = semaphore + 1
    /\ wpc' = [wpc EXCEPT ![i] = "call"]
    /\ UNCHANGED fetchVars
    /\ UNCHANGED pairVars
    /\ UNCHANGED <<urls, NumWorkers, execReturns, cancelled, expiredFirst,
                   mpc, next, wg, results, closed, finalResults, ret, calls,
                   sends>>

\* line 89: semaphore <- struct{}{} : a send on a channel of capacity
\* NumWorkers; nobody receives before having sent, so with capacity 0 the
\* send never completes.
Acquire(i) ==
    /\ wpc[i] = "acquire"
    /\ semaphore < NumWorkers
    /\ semaphore' = semaphore + 1
    /\ wpc' = [wpc EXCEPT ![i] = "call"]
    /\ UNCHANGED fetchVars
    /\ UNCHANGED pairVars
    /\ UNCHANGED <<urls, NumWorkers, execReturns, cancelled, expiredFirst,
                   mpc, next, wg, results, closed, finalResults, ret, calls,
                   sends>>

\* lines 91, 64: Worker calls scraper.Scrape(ctx, url); ctx is passed on,
\* never inspected
ExecCall(i) ==
    /\ wpc[i] = "call"
    /\ wpc' = [wpc EXCEPT ![i] = "exec"]
    /\ calls' = [calls EXCEPT ![i] = @ + 1]
    /\ UNCHANGED fetchVars
    /\ UNCHANGED pairVars
    /\ UNCHANGED <<urls, NumWorkers, execReturns, cancelled, expiredFirst,
                   mpc, next, wg, semaphore, results, closed, finalResults,
                   ret, sends>>

\* what an executor call for urls[i] may return: the payload, its own error,
\* or, once ctx is done, the ctx error
ExecOutcomes(i) ==
    {[Data |-> Body(WorkerURL(i)), Err |-> Nil],
     [Data |-> Nil, Err |-> TransportError]}
        \cup (IF cancelled THEN {[Data |-> Nil, Err |-> DeadlineExceeded]}
              ELSE {})

AnyReturned == \E j \in Tasks : ret[j] # NoRet

\* line 64: scraper.Scrape returns (data, err)
ExecReturn(i) ==
    /\ wpc[i] = "exec"
    /\ \E r \in ExecOutcomes(i) : ret' = [ret EXCEPT ![i] = r]
    /\ wpc' = [wpc EXCEPT ![i] = "send"]
    /\ UNCHANGED fetchVars
    /\ UNCHANGED pairVars
    /\ UNCHANGED <<urls, NumWorkers, execReturns, cancelled, expiredFirst,
                   mpc, next, wg, semaphore, results, closed, finalResults,
                   calls, sends>>

\* the executor ignores ctx and blocks forever
ExecHang(i) ==
    /\ wpc[i] = "exec"
    /\ ~execReturns
    /\ wpc' = [wpc EXCEPT ![i] = "hung"]
    /\ UNCHANGED fetchVars
    /\ UNCHANGED pairVars
    /\ UNCHANGED <<urls, NumWorkers, execReturns, cancelled, expiredFirst,
                   mpc, next, wg, semaphore, results, closed, finalResults,
                   ret, calls, sends>>

\* a worker that drops the Result of a failed executor call
Send_OnlySuccess(i) ==
    /\ wpc[i] = "send"
    /\ closed \/ ret[i].Err # Nil \/ Len(results) < ResultsCap
    /\ results' = IF closed \/ ret[i].Err # Nil THEN results
                  ELSE Append(results,
                              [URL |-> WorkerURL(i), Data |-> ret[i].Data,
                               Err |-> ret[i].Err])
    /\ sends' = IF closed THEN sends ELSE [sends EXCEPT ![i] = @ + 1]
    /\ wpc' = [wpc EXCEPT ![i] = IF closed THEN "panic" ELSE "release"]
    /\ UNCHANGED fetchVars
    /\ UNCHANGED pairVars
    /\ UNCHANGED <<urls, NumWorkers, execReturns, cancelled, expiredFirst,
                   mpc, next, wg, semaphore, closed, finalResults, ret,
                   calls>>

\* line 65: results <- Result{URL: url, Data: data, Err: err}
\* results has capacity len(urls) (line 82): the send blocks while the buffer
\* is full, and panics once the channel is closed
Send(i) ==
    /\ wpc[i] = "send"
    /\ closed \/ Len(results) < ResultsCap
    /\ results' = IF closed THEN results
                  ELSE Append(results,
                              [URL |-> WorkerURL(i), Data |-> ret[i].Data,
                               Err |-> ret[i].Err])
    /\ sends' = IF closed THEN sends ELSE [sends EXCEPT ![i] = @ + 1]
    /\ wpc' = [wpc EXCEPT ![i] = IF closed THEN "panic" ELSE "release"]
    /\ UNCHANGED fetchVars
    /\ UNCHANGED pairVars
    /\ UNCHANGED <<urls, NumWorkers, execReturns, cancelled, expiredFirst,
                   mpc, next, wg, semaphore, closed, finalResults, ret,
                   calls>>

\* a release that leaves the token in the semaphore
Release_NoFree(i) ==
    /\ wpc[i] = "release"
    /\ wpc' = [wpc EXCEPT ![i] = "wgdone"]
    /\ UNCHANGED fetchVars
    /\ UNCHANGED pairVars
    /\ UNCHANGED <<urls, NumWorkers, execReturns, cancelled, expiredFirst,
                   mpc, next, wg, semaphore, results, closed, finalResults,
                   ret, calls, sends>>

\* a release that receives from the semaphore twice
Release_Double(i) ==
    /\ wpc[i] = "release"
    /\ semaphore > 0
    /\ semaphore' = IF semaphore >= 2 THEN semaphore - 2 ELSE 0
    /\ wpc' = [wpc EXCEPT ![i] = "wgdone"]
    /\ UNCHANGED fetchVars
    /\ UNCHANGED pairVars
    /\ UNCHANGED <<urls, NumWorkers, execReturns, cancelled, expiredFirst,
                   mpc, next, wg, results, closed, finalResults, ret, calls,
                   sends>>

\* line 90: deferred func() { <-semaphore }()
Release(i) ==
    /\ wpc[i] = "release"
    /\ semaphore > 0
    /\ semaphore' = semaphore - 1
    /\ wpc' = [wpc EXCEPT ![i] = "wgdone"]
    /\ UNCHANGED fetchVars
    /\ UNCHANGED pairVars
    /\ UNCHANGED <<urls, NumWorkers, execReturns, cancelled, expiredFirst,
                   mpc, next, wg, results, closed, finalResults, ret, calls,
                   sends>>

\* line 88: deferred wg.Done()
WgDone(i) ==
    /\ wpc[i] = "wgdone"
    /\ wg' = wg - 1
    /\ wpc' = [wpc EXCEPT ![i] = "done"]
    /\ UNCHANGED fetchVars
    /\ UNCHANGED pairVars
    /\ UNCHANGED <<urls, NumWorkers, execReturns, cancelled, expiredFirst,
                   mpc, next, semaphore, results, closed, finalResults, ret,
                   calls, sends>>

\* ------------------------------------------------- the environment
\* the deadline of the ctx handed to Scrape expires (scraper.go:127)
Cancel ==
    /\ ~cancelled
    /\ mpc # "done"
    /\ cancelled' = TRUE
    /\ expiredFirst' = ~AnyReturned
    /\ UNCHANGED fetchVars
    /\ UNCHANGED pairVars
    /\ UNCHANGED <<urls, NumWorkers, execReturns, mpc, next, wg, semaphore,
                   results, closed, finalResults, wpc, ret, calls, sends>>

Next ==
    \/ MakeChans
    \/ Spawn
    \/ LoopExit
    \/ Wait
    \/ Close
    \/ Drain
    \/ Return
    \/ Cancel
    \/ \E i \in Tasks : Acquire(i)
    \/ \E i \in Tasks : ExecCall(i)
    \/ \E i \in Tasks : ExecReturn(i)
    \/ \E i \in Tasks : ExecHang(i)
    \/ \E i \in Tasks : Send(i)
    \/ \E i \in Tasks : Release(i)
    \/ \E i \in Tasks : WgDone(i)

Spec == Init /\ [][Next]_vars

\* The Go scheduler runs every runnable goroutine eventually, and a channel
\* wakes its blocked senders in arrival order: each step of the caller and
\* of a worker that stays possible is eventually taken.  Nothing obliges the
\* ctx to expire or an executor call to hang.
MainStep ==
    MakeChans \/ Spawn \/ LoopExit \/ Wait \/ Close \/ Drain \/ Return

WorkerStep(i) ==
    /\ i \in Tasks
    /\ \/ Acquire(i)
       \/ ExecCall(i)
       \/ ExecReturn(i)
       \/ Send(i)
       \/ Release(i)
       \/ WgDone(i)

Fairness ==
    /\ WF_vars(MainStep)
    /\ \A i \in 1..MaxKeys : WF_vars(WorkerStep(i))

\* The liveness run takes the batches with a valid limit and an executor
\* that always returns; the keys play no part in the scheduling, so it
\* submits the same key throughout.
FairInit ==
    /\ Init
    /\ NumWorkers >= 1
    /\ execReturns
    /\ \A i \in Tasks : urls[i] = "a"

FairNext ==
    \/ MakeChans
    \/ Spawn
    \/ LoopExit
    \/ Wait
    \/ Close
    \/ Drain
    \/ Return
    \/ Cancel
    \/ \E i \in Tasks : Acquire(i)
    \/ \E i \in Tasks : ExecCall(i)
    \/ \E i \in Tasks : ExecReturn(i)
    \/ \E i \in Tasks : Send(i)
    \/ \E i \in Tasks : Release(i)
    \/ \E i \in Tasks : WgDone(i)

FairSpec == FairInit /\ [][FairNext]_vars /\ Fairness

\* ======================================================= single fetch
\* fetchUserData (context.go).  Time is a clock of 50ms ticks; a goroutine
\* that can take a step takes it before the clock advances (scheduling
\* latency is far below one tick).
Never == -1
TookTooLong == "took too long"
FetchDelays == (0..MaxDelay) \cup {SleepTicks, Never}
FetchValues == {[value |-> FetchedValue, err |-> Nil],
                [value |-> 0, err |-> TransportError],
                [value |-> 1, err |-> Nil]}

\* fetchThirdPartyStuffWhichCanBeSlow: how long it takes and what it returns
\* (the source sleeps SleepTicks and returns FetchedValue, nil)
FetchInit ==
    /\ now = 0
    /\ fpc = "start"
    /\ gpc = "off"
    /\ fetchDelay \in FetchDelays
    /\ fetchVal \in FetchValues
    /\ deadline = 0
    /\ respch = NoRet
    /\ doneAt = Never
    /\ fret = NoRet

\* lines 29-40: ctx with a deadline Budget from now, respch, go func()
FStart ==
    /\ fpc = "start"
    /\ deadline' = now + Budget
    /\ gpc' = "fetch"
    /\ fpc' = "select"
    /\ UNCHANGED batchVars
    /\ UNCHANGED pairVars
    /\ UNCHANGED <<now, fetchDelay, fetchVal, respch, doneAt, fret>>

\* line 35: fetchThirdPartyStuffWhichCanBeSlow returns; line 36: the
\* goroutine offers the Response on the unbuffered respch
FetchReturn ==
    /\ gpc = "fetch"
    /\ fetchDelay # Never
    /\ now >= fetchDelay
    /\ respch' = fetchVal
    /\ doneAt' = now
    /\ gpc' = "send"
    /\ UNCHANGED batchVars
    /\ UNCHANGED pairVars
    /\ UNCHANGED <<now, fpc, fetchDelay, fetchVal, deadline, fret>>

\* a timeout case that is taken only once the fetch has also answered
SelectDone_WaitsForFetch ==
    /\ fpc = "select"
    /\ now >= deadline
    /\ gpc = "send"
    /\ fret' = [value |-> 0, err |-> TookTooLong]
    /\ fpc' = "returned"
    /\ UNCHANGED batchVars
    /\ UNCHANGED pairVars
    /\ UNCHANGED <<now, gpc, fetchDelay, fetchVal, deadline, respch, doneAt>>

\* lines 44-45: case <-ctx.Done()
SelectDone ==
    /\ fpc = "select"
    /\ now >= deadline
    /\ fret' = [value |-> 0, err |-> TookTooLong]
    /\ fpc' = "returned"
    /\ UNCHANGED batchVars
    /\ UNCHANGED pairVars
    /\ UNCHANGED <<now, gpc, fetchDelay, fetchVal, deadline, respch, doneAt>>

\* a receive case that returns the value and drops the error
SelectResp_DropErr ==
    /\ fpc = "select"
    /\ gpc = "send"
    /\ fret' = [value |-> respch.value, err |-> Nil]
    /\ fpc' = "returned"
    /\ gpc' = "done"
    /\ UNCHANGED batchVars
    /\ UNCHANGED pairVars
    /\ UNCHANGED <<now, fetchDelay, fetchVal, deadline, respch, doneAt>>

\* lines 46-47: case resp := <-respch; the rendezvous also completes the
\* goroutine's send
SelectResp ==
    /\ fpc = "select"
    /\ gpc = "send"
    /\ fret' = [value |-> respch.value, err |-> respch.err]
    /\ fpc' = "returned"
    /\ gpc' = "done"
    /\ UNCHANGED batchVars
    /\ UNCHANGED pairVars
    /\ UNCHANGED <<now, fetchDelay, fetchVal, deadline, respch, doneAt>>

MaxTime == MaxDelay + 1

Tick ==
    /\ now < MaxTime
    /\ ~ENABLED FStart
    /\ ~ENABLED FetchReturn
    /\ ~ENABLED SelectDone
    /\ ~ENABLED SelectResp
    /\ now' = now + 1
    /\ UNCHANGED batchVars
    /\ UNCHANGED pairVars
    /\ UNCHANGED <<fpc, gpc, fetchDelay, fetchVal, deadline, respch, doneAt,
                   fret>>

NextFetch ==
    \/ FStart
    \/ FetchReturn
    \/ SelectDone
    \/ SelectResp
    \/ Tick

InitFetch == BatchIdle /\ FetchInit /\ PairIdle

SpecFetch == InitFetch /\ [][NextFetch]_vars

\* ================================================ two concurrent calls
\* Two calls of ConcurrentScraper.Scrape running at the same time, on the
\* same ConcurrentScraper or on two of them.  wg, results and semaphore are
\* locals of Scrape (lines 81-84), so each call has its own: inst[c] holds
\* the locals of call c and the positions of its goroutines.  The ctx is
\* context.Background(): it never expires and the executor returns.
Calls == {1, 2}
KeysOf(c) == IF c = 1 THEN {"a"} ELSE {"b"}
PTasks(c) == 1..Len(inst[c].urls)

NewCall(u, n) ==
    [urls |-> u, N |-> n, mpc |-> "make", next |-> 1, wg |-> 0,
     semaphore |-> 0, results |-> <<>>, closed |-> FALSE,
     finalResults |-> <<>>,
     wpc |-> [i \in 1..Len(u) |-> "idle"],
     ret |-> [i \in 1..Len(u) |-> NoRet]]

PairInit ==
    \E u1 \in SeqsUpTo(KeysOf(1), MaxKeysEach),
       u2 \in SeqsUpTo(KeysOf(2), MaxKeysEach),
       n1, n2 \in 1..MaxWorkers :
        inst = <<NewCall(u1, n1), NewCall(u2, n2)>>

InitPair == BatchIdle /\ FetchIdle /\ PairInit

\* the step of call c that takes its locals from inst[c] to r
PStep(c, r) ==
    /\ inst' = [inst EXCEPT ![c] = r]
    /\ UNCHANGED batchVars
    /\ UNCHANGED fetchVars

\* lines 82-84
PMakeChans(c) ==
    /\ inst[c].mpc = "make"
    /\ PStep(c, [inst[c] EXCEPT
                    !.mpc = IF inst[c].N < 0 THEN "panic" ELSE "loop"])

\* lines 85-93: wg.Add(1); go func(url)
PSpawn(c) ==
    /\ inst[c].mpc = "loop"
    /\ inst[c].next <= Len(inst[c].urls)
    /\ PStep(c, [inst[c] EXCEPT !.wg = @ + 1,
                                !.wpc[inst[c].next] = "acquire",
                                !.next = @ + 1])

\* line 85: the range is exhausted
PLoopExit(c) ==
    /\ inst[c].mpc = "loop"
    /\ inst[c].next > Len(inst[c].urls)
    /\ PStep(c, [inst[c] EXCEPT !.mpc = "wait"])

\* line 95: wg.Wait()
PWait(c) ==
    /\ inst[c].mpc = "wait"
    /\ inst[c].wg = 0
    /\ PStep(c, [inst[c] EXCEPT !.mpc = "close"])

\* line 96: close(results)
PClose(c) ==
    /\ inst[c].mpc = "close"
    /\ PStep(c, [inst[c] EXCEPT !.closed = TRUE, !.mpc = "drain"])

\* lines 99-101: for result := range results
PDrain(c) ==
    /\ inst[c].mpc = "drain"
    /\ inst[c].results # <<>>
    /\ PStep(c, [inst[c] EXCEPT
                    !.finalResults = Append(@, Head(inst[c].results)),
                    !.results = Tail(@)])

\* lines 99-103: return finalResults
PReturn(c) ==
    /\ inst[c].mpc = "drain"
    /\ inst[c].results = <<>>
    /\ inst[c].closed
    /\ PStep(c, [inst[c] EXCEPT !.mpc = "done"])

\* line 89: semaphore <- struct{}{}
PAcquire(c, i) ==
    /\ inst[c].wpc[i] = "acquire"
    /\ inst[c].semaphore < inst[c].N
    /\ PStep(c, [inst[c] EXCEPT !.semaphore = @ + 1, !.wpc[i] = "call"])

\* lines 91, 64: Worker calls scraper.Scrape(ctx, url)
PExecCall(c, i) ==
    /\ inst[c].wpc[i] = "call"
    /\ PStep(c, [inst[c] EXCEPT !.wpc[i] = "exec"])

\* line 64: scraper.Scrape returns (data, err)
PExecReturn(c, i) ==
    /\ inst[c].wpc[i] = "exec"
    /\ \E r \in {[Data |-> Body(inst[c].urls[i]), Err |-> Nil],
                 [Data |-> Nil, Err |-> TransportError]} :
           PStep(c, [inst[c] EXCEPT !.ret[i] = r, !.wpc[i] = "send"])

\* a worker that sends on one results channel shared by every call
PSend_SharedResults(c, i) ==
    /\ inst[c].wpc[i] = "send"
    /\ Len(inst[1].results) < Len(inst[1].urls)
    /\ inst' = [inst EXCEPT
                   ![1].results =
                       Append(@, [URL |-> inst[c].urls[i],
                                  Data |-> inst[c].ret[i].Data,
                                  Err |-> inst[c].ret[i].Err]),
                   ![c].wpc[i] = "release"]
    /\ UNCHANGED batchVars
    /\ UNCHANGED fetchVars

\* line 65: results <- Result{URL: url, Data: data, Err: err}
PSend(c, i) ==
    /\ inst[c].wpc[i] = "send"
    /\ inst[c].closed \/ Len(inst[c].results) < Len(inst[c].urls)
    /\ PStep(c, IF inst[c].closed
                THEN [inst[c] EXCEPT !.wpc[i] = "panic"]
                ELSE [inst[c] EXCEPT
                         !.results =
                             Append(@, [URL |-> inst[c].urls[i],
                                        Data |-> inst[c].ret[i].Data,
                                        Err |-> inst[c].ret[i].Err]),
                         !.wpc[i] = "release"])

\* line 90: deferred func() { <-semaphore }()
PRelease(c, i) ==
    /\ inst[c].wpc[i] = "release"
    /\ inst[c].semaphore > 0
    /\ PStep(c, [inst[c] EXCEPT !.semaphore = @ - 1, !.wpc[i] = "wgdone"])

\* line 88: deferred wg.Done()
PWgDone(c, i) ==
    /\ inst[c].wpc[i] = "wgdone"
    /\ PStep(c, [inst[c] EXCEPT !.wg = @ - 1, !.wpc[i] = "done"])

NextPair ==
    \/ \E c \in Calls : PMakeChans(c)
    \/ \E c \in Calls : PSpawn(c)
    \/ \E c \in Calls : PLoopExit(c)
    \/ \E c \in Calls : PWait(c)
    \/ \E c \in Calls : PClose(c)
    \/ \E c \in Calls : PDrain(c)
    \/ \E c \in Calls : PReturn(c)
    \/ \E c \in Calls : \E i \in PTasks(c) : PAcquire(c, i)
    \/ \E c \in Calls : \E i \in PTasks(c) : PExecCall(c, i)
    \/ \E c \in Calls : \E i \in PTasks(c) : PExecReturn(c, i)
    \/ \E c \in Calls : \E i \in PTasks(c) : PSend(c, i)
    \/ \E c \in Calls : \E i \in PTasks(c) : PRelease(c, i)
    \/ \E c \in Calls : \E i \in PTasks(c) : PWgDone(c, i)

SpecPair == InitPair /\ [][NextPair]_vars

\* ============================================================ properties
InFlight == Cardinality({i \in Tasks : wpc[i] \in {"exec", "hung"}})

CountKey(k) == Cardinality({i \in Tasks : urls[i] = k})
CountResult(k) ==
    Cardinality({j \in DOMAIN finalResults : finalResults[j].URL = k})

ResultOf(i) == [URL |-> urls[i], Data |-> ret[i].Data, Err |-> ret[i].Err]

\* C1: the slice Scrape returns has exactly len(urls) entries and the
\* multiset of its URL fields is the multiset of the submitted keys.
C1_NoDropNoDup ==
    mpc = "done" =>
        /\ Len(finalResults) = Len(urls)
        /\ \A k \in Keys : CountResult(k) = CountKey(k)

C1_Witness ==
    /\ mpc = "done"
    /\ Len(urls) >= 2
    /\ urls[1] = urls[2]

\* C2: with a limit N >= 1, at most N workers are inside the executor, the
\* semaphore never holds more than N tokens, and a worker still waiting at
\* the semaphore has not called the executor.
C2_AtMostN ==
    NumWorkers >= 1 =>
        /\ InFlight <= NumWorkers
        /\ semaphore <= NumWorkers
        /\ \A i \in Tasks : wpc[i] = "acquire" => calls[i] = 0

C2_Witness ==
    /\ NumWorkers >= 1
    /\ InFlight = NumWorkers
    /\ \E i \in Tasks : wpc[i] = "acquire"

\* C3: once wg.Wait has returned (and so when Scrape returns) every worker
\* has sent exactly one Result and has terminated, and nothing is left to
\* send.
C3_ReturnAfterAll ==
    mpc \in {"close", "drain", "done"} =>
        \A i \in Tasks : wpc[i] = "done" /\ sends[i] = 1

C3_Witness ==
    /\ mpc = "done"
    /\ Len(urls) >= 2
    /\ \A i \in Tasks : sends[i] = 1

\* C4: once ctx is done, no worker starts an executor call.
C4_NoCallAfterCancel ==
    [][cancelled =>
          \A i \in Tasks : ~(wpc[i] = "call" /\ wpc'[i] = "exec")]_vars

\* C5: with a valid limit, once the deadline has passed the caller gets its
\* result even if an executor call never returns: no run ends with the ctx
\* done and Scrape not returned.
C5_ReturnsAfterDeadline ==
    (NumWorkers >= 1 /\ cancelled /\ ~ENABLED Next) => mpc = "done"

\* C6: if ctx fired before any executor call returned, every entry of the
\* returned slice carries the deadline error.
C6_AllDeadlineExceeded ==
    (mpc = "done" /\ expiredFirst) =>
        \A j \in DOMAIN finalResults : finalResults[j].Err = DeadlineExceeded

\* C7: with a limit below 1 and at least one key, the call fails before any
\* task is spawned: no worker goroutine exists and the caller neither panics
\* nor goes on to wait.
C7_SubmissionError ==
    (NumWorkers < 1 /\ Len(urls) >= 1) =>
        /\ \A i \in Tasks : wpc[i] = "idle" /\ calls[i] = 0
        /\ mpc \notin {"panic", "wait"}

\* C8: executor errors do not abort the batch: when Scrape returns, every
\* task has called the executor once and its own (url, data, err) is in the
\* returned slice, whichever calls failed.
C8_ErrorsAreOutcomes ==
    mpc = "done" =>
        \A i \in Tasks :
            /\ calls[i] = 1
            /\ \E j \in DOMAIN finalResults : finalResults[j] = ResultOf(i)

C8_Witness ==
    /\ mpc = "done"
    /\ \E i, k \in Tasks : ret[i].Err = TransportError /\ ret[k].Err = Nil

\* C9: with N >= 1 and an executor that always returns, under fair
\* scheduling every worker waiting at the semaphore is admitted, every
\* worker sends its Result, and Scrape returns.
C9_NoStarvation ==
    /\ (NumWorkers >= 1 /\ execReturns) ~> (mpc = "done")
    /\ \A i \in 1..MaxKeys :
          (NumWorkers >= 1 /\ execReturns /\ i \in Tasks
              /\ wpc[i] = "acquire") ~> (i \in Tasks /\ wpc[i] = "call")
    /\ \A i \in 1..MaxKeys :
          (NumWorkers >= 1 /\ execReturns /\ i \in Tasks
              /\ wpc[i] = "acquire") ~> (i \in Tasks /\ sends[i] = 1)

C9_Witness ==
    /\ mpc = "done"
    /\ execReturns
    /\ NumWorkers >= 1
    /\ Len(urls) > NumWorkers

\* C10: when the third-party fetch returns strictly before the ctx of
\* fetchUserData expires, fetchUserData returns the fetch's value and error;
\* so it does for the 150ms fetch of the source under the 200ms budget.
C10_FetchWins ==
    fpc = "returned" =>
        /\ (doneAt # Never /\ doneAt < deadline) => fret = fetchVal
        /\ fetchDelay = SleepTicks => fret = fetchVal

C10_Witness ==
    /\ fpc = "returned"
    /\ fetchDelay = SleepTicks
    /\ deadline = Budget
    /\ fret = [value |-> FetchedValue, err |-> Nil]

\* C11: fetchUserData never stays in its select past the expiry of its ctx,
\* and when the third-party fetch has not returned by then (or never
\* returns) it returns the timeout failure.
C11_TimeoutWins ==
    /\ fpc = "select" => now <= deadline
    /\ (fpc = "returned" /\ (doneAt = Never \/ doneAt > deadline)) =>
           fret = [value |-> 0, err |-> TookTooLong]

C11_Witness ==
    /\ fpc = "returned"
    /\ fetchDelay = Never
    /\ now = deadline
    /\ fret.err = TookTooLong

\* C12: a background goroutine whose fetch returned after the timeout is not
\* left blocked on its respch send: no run ends with it still waiting for a
\* receiver.
C12_NoLeak ==
    (doneAt > deadline /\ ~ENABLED NextFetch) => gpc # "send"

\* C13: when the limit is at least the number of keys, a worker at the
\* semaphore is never made to wait, and if every executor call succeeds
\* every entry of the returned slice is a success carrying its url's
\* payload.
C13_AllAdmitted ==
    NumWorkers >= Len(urls) =>
        /\ \A i \in Tasks : wpc[i] = "acquire" => ENABLED Acquire(i)
        /\ (mpc = "done" /\ \A i \in Tasks : ret[i].Err = Nil) =>
               /\ Len(finalResults) = Len(urls)
               /\ \A j \in DOMAIN finalResults :
                      /\ finalResults[j].Err = Nil
                      /\ finalResults[j].Data = Body(finalResults[j].URL)

\* all the executor calls of the batch are in flight at the same time
C13_Witness ==
    /\ NumWorkers >= Len(urls)
    /\ Len(urls) >= 2
    /\ InFlight = Len(urls)

\* C14: the results channel never holds more than len(urls) Results, and a
\* worker that has its Result to send can always send it.
C14_SendNeverBlocks ==
    /\ Len(results) <= Len(urls)
    /\ \A i \in Tasks : wpc[i] = "send" => ENABLED Send(i)

C14_Witness ==
    /\ Len(results) >= 1
    /\ \E i \in Tasks : wpc[i] = "send"
    /\ semaphore = NumWorkers

Occurrences(seq, r) == Cardinality({j \in DOMAIN seq : seq[j] = r})
Producers(r) == Cardinality({i \in Tasks : ResultOf(i) = r})

\* C16: no worker calls the executor more than once, and the returned slice
\* holds, for each task, one entry made of the task's own url and of what
\* the executor returned to that task, and nothing else.
C16_PairedWithKey ==
    /\ \A i \in Tasks : calls[i] <= 1
    /\ mpc = "done" =>
           \A r \in {ResultOf(i) : i \in Tasks}
                       \cup {finalResults[j] : j \in DOMAIN finalResults} :
               Occurrences(finalResults, r) = Producers(r)

C16_Witness ==
    /\ mpc = "done"
    /\ Len(urls) >= 2
    /\ urls[1] # urls[2]
    /\ ret[1].Err = Nil
    /\ ret[2].Err = TransportError

Holding == {"call", "exec", "hung", "send", "release"}

\* C17: the semaphore holds one token per worker between its acquire and its
\* release, a worker has sent its Result exactly when it is at or past its
\* release, and the semaphore is empty when Scrape returns.
C17_SlotAccounting ==
    /\ semaphore = Cardinality({i \in Tasks : wpc[i] \in Holding})
    /\ \A i \in Tasks :
           sends[i] = (IF wpc[i] \in {"release", "wgdone", "done"} THEN 1
                       ELSE 0)
    /\ mpc = "done" => semaphore = 0

C17_Witness ==
    /\ semaphore = 2
    /\ \E i \in Tasks : wpc[i] = "release"
    /\ \E i \in Tasks : wpc[i] = "exec"

\* C18: no worker ever sends on the closed results channel; when the channel
\* is closed every Result is in its buffer, and the drain loop moves exactly
\* those into the returned slice.
C18_CloseAfterSends ==
    /\ \A i \in Tasks : wpc[i] # "panic"
    /\ mpc = "close" => Len(results) = Len(urls)
    /\ closed =>
           /\ \A i \in Tasks : wpc[i] \in {"done"}
           /\ Len(finalResults) + Len(results) = Len(urls)

C18_Witness ==
    /\ closed
    /\ mpc = "drain"
    /\ Len(results) >= 1
    /\ Len(finalResults) >= 1

PInFlight(c) == Cardinality({i \in PTasks(c) : inst[c].wpc[i] = "exec"})
PResultOf(c, i) ==
    [URL |-> inst[c].urls[i], Data |-> inst[c].ret[i].Data,
     Err |-> inst[c].ret[i].Err]
POwn(c, seq) ==
    \A j \in DOMAIN seq : \E i \in PTasks(c) : seq[j] = PResultOf(c, i)

\* C15: of two calls running together, each keeps its in-flight executor
\* calls and its semaphore within its own limit, its results channel and
\* its returned slice hold Results of its own tasks only, and it returns one
\* entry per key it was given.
C15_NoInterference ==
    \A c \in Calls :
        /\ PInFlight(c) <= inst[c].N
        /\ inst[c].semaphore <= inst[c].N
        /\ inst[c].semaphore =
               Cardinality({i \in PTasks(c) :
                              inst[c].wpc[i] \in Holding})
        /\ POwn(c, inst[c].results)
        /\ POwn(c, inst[c].finalResults)
        /\ \A i \in PTasks(c) : inst[c].wpc[i] # "panic"
        /\ inst[c].mpc = "done" =>
               /\ Len(inst[c].finalResults) = Len(inst[c].urls)
               /\ \A i \in PTasks(c) :
                      \E j \in DOMAIN inst[c].finalResults :
                          inst[c].finalResults[j] = PResultOf(c, i)

\* both calls are at the limit of one at the same time: two executor calls
\* are in flight under a limit of one per call
C15_Witness ==
    /\ \A c \in Calls : inst[c].N = 1 /\ PInFlight(c) = 1

====
